---- MODULE Spec2Model ----
(***************************************************************************)
(* A model of BreadedGBA: the ARM7TDMI register/mode bank and exception    *)
(* entry (src/src/cpu/arm7_cpu.cpp), the interrupt controller and the I/O  *)
(* register file (src/src/system.cpp) and the display timing counter       *)
(* (src/src/ppu/ppu.cpp, GBAPPU::step).                                    *)
(*                                                                         *)
(* A uint32_t is a pair <<hi, lo>> of 16-bit halves, because 2^31 and      *)
(* above do not fit a TLC integer; all arithmetic on it is modulo 2^32.    *)
(* A uint16_t / uint8_t is a natural number below 2^16 / 2^8.  Bus         *)
(* addresses of the I/O registers are plain naturals (all below 2^27).     *)
(***************************************************************************)
EXTENDS Integers, Sequences, FiniteSets, TLC

\* ------------------------------------------------------------------------
\* Fixed-width arithmetic
\* ------------------------------------------------------------------------

H == 256 * 256

RECURSIVE BitAnd(_, _)
BitAnd(a, b) ==
    IF a = 0 \/ b = 0 THEN 0
    ELSE (a % 2) * (b % 2) + 2 * BitAnd(a \div 2, b \div 2)

BitOr(a, b) == a + b - BitAnd(a, b)

\* ~x restricted to 16 bits
Not16(a) == (H - 1) - a

\* x & ~m on 16 bits
AndNot16(x, m) == BitAnd(x, Not16(m % H))

RECURSIVE Pow2(_)
Pow2(n) == IF n = 0 THEN 1 ELSE 2 * Pow2(n - 1)

\* bit k (0..15) of a 16-bit value
Bit(x, k) == (x \div Pow2(k)) % 2 = 1

\* 32-bit words
Zero32 == <<0, 0>>
AndW(x, y) == <<BitAnd(x[1], y[1]), BitAnd(x[2], y[2])>>
OrW(x, y) == <<BitOr(x[1], y[1]), BitOr(x[2], y[2])>>
NotW(x) == <<Not16(x[1]), Not16(x[2])>>
AddW(x, y) ==
    LET lo == x[2] + y[2]
        hi == x[1] + y[1] + (lo \div H)
    IN  <<hi % H, lo % H>>
\* x - y modulo 2^32 (two's complement)
SubW(x, y) == AddW(x, AddW(NotW(y), <<0, 1>>))
\* (uint32_t)b << s for a byte or halfword b and s in {0, 8, 16, 24}
ShlW(b, s) ==
    IF s < 16 THEN <<((b * Pow2(s)) \div H) % H, (b * Pow2(s)) % H>>
    ELSE <<(b * Pow2(s - 16)) % H, 0>>
\* (w >> 16) & 0xFFFF and w & 0xFFFF
HiHalf(w) == w[1]
LoHalf(w) == w[2]

\* ------------------------------------------------------------------------
\* cpu/arm7_cpu.h
\* ------------------------------------------------------------------------

USER == 16
FIQ == 17
IRQ == 18
SUPERVISOR == 19
ABORT == 23
UNDEFINED == 27
SYSTEM == 31
CpuMode == {USER, FIQ, IRQ, SUPERVISOR, ABORT, UNDEFINED, SYSTEM}

FLAG_N == <<32768, 0>>
FLAG_Z == <<16384, 0>>
FLAG_C == <<8192, 0>>
FLAG_V == <<4096, 0>>
FLAG_I == <<0, 128>>
FLAG_F == <<0, 64>>
FLAG_T == <<0, 32>>

VECTOR_UNDEFINED == <<0, 4>>
VECTOR_IRQ == <<0, 24>>
VECTOR_FIQ == <<0, 28>>

\* (cpsr & FLAG) != 0
Flag(cpsr, f) == AndW(cpsr, f) # Zero32

\* ------------------------------------------------------------------------
\* system.h
\* ------------------------------------------------------------------------

REG_IE == 67109376
REG_IF == 67109378
REG_IME == 67109384
REG_DISPCNT == 67108864
REG_DISPSTAT == 67108868
REG_BG0CNT == 67108872
REG_BG0HOFS == 67108880

\* ------------------------------------------------------------------------
\* ppu/ppu.h, ppu/ppu.cpp
\* ------------------------------------------------------------------------

GBA_SCREEN_HEIGHT == 160
DOTS_PER_SCANLINE == 308
TOTAL_SCANLINES == 228
HBLANK_DOT == 240
DISPSTAT_VBLANK == 1
DISPSTAT_HBLANK == 2
DISPSTAT_VCOUNT_MATCH == 4
DISPSTAT_VBLANK_IRQ_ENABLE == 8
DISPSTAT_HBLANK_IRQ_ENABLE == 16
DISPSTAT_VCOUNT_IRQ_ENABLE == 32
DISPSTAT_VCOUNT_SETTING_MASK == 65280

\* ------------------------------------------------------------------------
\* State
\* ------------------------------------------------------------------------

VARIABLES
    \* ARM7CPU
    registers, cpsr, spsr, banked_r13, banked_r14, banked_r8_r12,
    thumb_mode, cycles,
    \* GBASystem
    running, interrupt_enable, interrupt_flags, interrupt_master,
    \* GBAPPU
    dispcnt, dispstat, vcount, scanline, dot,
    bg_control, bg_scroll_x, bg_scroll_y,
    \* position in GBASystem::run_frame and its loop counter
    phase, frame_i,
    \* the last operation performed, with the values it started from
    last,
    \* number of register-bank operations performed, and the mode round trip
    \* under way: the visible registers at the switch that began it
    nops, trip,
    \* inputs and result of the last check_condition evaluation
    cc_cond, cc_result,
    \* GBAMemory: the byte arrays, each at the indices the model samples
    mem

cpuVars == <<registers, cpsr, spsr, banked_r13, banked_r14, banked_r8_r12,
             thumb_mode, cycles>>
irqVars == <<interrupt_enable, interrupt_flags, interrupt_master>>
ppuVars == <<dispcnt, dispstat, vcount, scanline, dot,
             bg_control, bg_scroll_x, bg_scroll_y>>
frameVars == <<running, phase, frame_i>>
ccVars == <<cc_cond, cc_result>>
bankVars == <<nops, trip>>
vars == <<cpuVars, irqVars, ppuVars, frameVars, last, bankVars, ccVars, mem>>

\* ------------------------------------------------------------------------
\* ARM7CPU (cpu/arm7_cpu.cpp).  The operators work on a record c holding the
\* CPU's fields and return the record after the call.
\* ------------------------------------------------------------------------

Cpu ==
    [registers |-> registers, cpsr |-> cpsr, spsr |-> spsr,
     banked_r13 |-> banked_r13, banked_r14 |-> banked_r14,
     banked_r8_r12 |-> banked_r8_r12, thumb_mode |-> thumb_mode,
     cycles |-> cycles]

SetCpu(c) ==
    /\ registers' = c.registers
    /\ cpsr' = c.cpsr
    /\ spsr' = c.spsr
    /\ banked_r13' = c.banked_r13
    /\ banked_r14' = c.banked_r14
    /\ banked_r8_r12' = c.banked_r8_r12
    /\ thumb_mode' = c.thumb_mode
    /\ cycles' = c.cycles

get_mode_index(mode) ==
    CASE mode \in {USER, SYSTEM} -> 0
      [] mode = FIQ -> 1
      [] mode = IRQ -> 2
      [] mode = SUPERVISOR -> 3
      [] mode = ABORT -> 4
      [] mode = UNDEFINED -> 5
      [] OTHER -> 0

\* static_cast<CpuMode>(cpsr & 0x1F)
get_current_mode(c) == AndW(c.cpsr, <<0, 31>>)[2]

CpuReset ==
    [registers |-> [r \in 0..15 |-> IF r = 15 THEN <<2048, 0>> ELSE Zero32],
     cpsr |-> <<0, SYSTEM>>,
     spsr |-> [k \in 0..4 |-> Zero32],
     banked_r13 |->
        [k \in 0..5 |->
            CASE k = get_mode_index(USER) -> <<768, 32512>>
              [] k = get_mode_index(IRQ) -> <<768, 32672>>
              [] OTHER -> <<768, 32736>>],
     banked_r14 |-> [k \in 0..5 |-> Zero32],
     banked_r8_r12 |-> [k \in 0..9 |-> Zero32],
     thumb_mode |-> FALSE,
     cycles |-> 0]

\* save_banked_registers without the save of R14
save_banked_registers_sp_only(c, prior_mode) ==
    LET mode_index == get_mode_index(prior_mode)
        c1 == [c EXCEPT !.banked_r13[mode_index] = c.registers[13]]
    IN  IF prior_mode = FIQ
        THEN [c1 EXCEPT !.banked_r8_r12 =
                [k \in 0..9 |-> IF k < 5 THEN c.registers[8 + k] ELSE @[k]]]
        ELSE c1

save_banked_registers(c, prior_mode) ==
    LET mode_index == get_mode_index(prior_mode)
        c1 == [c EXCEPT !.banked_r13[mode_index] = c.registers[13],
                        !.banked_r14[mode_index] = c.registers[14]]
    IN  IF prior_mode = FIQ
        THEN [c1 EXCEPT !.banked_r8_r12 =
                [k \in 0..9 |-> IF k < 5 THEN c.registers[8 + k] ELSE @[k]]]
        ELSE c1

restore_banked_registers(c, new_mode) ==
    LET mode_index == get_mode_index(new_mode)
        base == IF new_mode = FIQ THEN 0 ELSE 5
    IN  [c EXCEPT !.registers =
            [r \in 0..15 |->
                CASE r = 13 -> c.banked_r13[mode_index]
                  [] r = 14 -> c.banked_r14[mode_index]
                  [] r \in 8..12 -> c.banked_r8_r12[base + (r - 8)]
                  [] OTHER -> @[r]]]

\* switch_mode with "cpsr = (cpsr & ~0xFF) | new_mode"
switch_mode_clears_low_byte(c, new_mode) ==
    LET prior_mode == get_current_mode(c)
        c1 == save_banked_registers(c, prior_mode)
        c2 == [c1 EXCEPT !.cpsr = OrW(AndW(@, NotW(<<0, 255>>)), <<0, new_mode>>)]
    IN  IF prior_mode = new_mode THEN c
        ELSE restore_banked_registers(c2, new_mode)

\* switch_mode with the mode masked by 0x0F when it is placed in the CPSR
switch_mode_masks_mode(c, new_mode) ==
    LET prior_mode == get_current_mode(c)
        c1 == save_banked_registers(c, prior_mode)
        c2 == [c1 EXCEPT !.cpsr = OrW(AndW(@, NotW(<<0, 31>>)), <<0, new_mode % 16>>)]
    IN  IF prior_mode = new_mode THEN c
        ELSE restore_banked_registers(c2, new_mode)

switch_mode(c, new_mode) ==
    LET prior_mode == get_current_mode(c)
        c1 == save_banked_registers(c, prior_mode)
        c2 == [c1 EXCEPT !.cpsr = OrW(AndW(@, NotW(<<0, 31>>)), <<0, new_mode>>)]
    IN  IF prior_mode = new_mode THEN c
        ELSE restore_banked_registers(c2, new_mode)

\* registers[15] - 2 in Thumb state, registers[15] - 4 in ARM state
return_address(c) ==
    IF c.thumb_mode THEN SubW(c.registers[15], <<0, 2>>)
    ELSE SubW(c.registers[15], <<0, 4>>)

\* handle_irq without "cpsr |= FLAG_I"
handle_irq_keeps_irqs_enabled(c) ==
    LET c1 == [c EXCEPT !.spsr[get_mode_index(IRQ)] = c.cpsr]
        c2 == [c1 EXCEPT !.banked_r14[get_mode_index(IRQ)] = return_address(c)]
        c3 == switch_mode(c2, IRQ)
        c4 == [c3 EXCEPT !.cpsr = AndW(@, NotW(FLAG_T)), !.thumb_mode = FALSE]
    IN  [c4 EXCEPT !.registers[15] = VECTOR_IRQ, !.cycles = @ + 3]

\* handle_irq without "thumb_mode = false"
handle_irq_keeps_thumb_mode(c) ==
    LET c1 == [c EXCEPT !.spsr[get_mode_index(IRQ)] = c.cpsr]
        c2 == [c1 EXCEPT !.banked_r14[get_mode_index(IRQ)] = return_address(c)]
        c3 == switch_mode(c2, IRQ)
        c4 == [c3 EXCEPT !.cpsr = AndW(OrW(@, FLAG_I), NotW(FLAG_T))]
    IN  [c4 EXCEPT !.registers[15] = VECTOR_IRQ, !.cycles = @ + 3]

handle_irq(c) ==
    LET c1 == [c EXCEPT !.spsr[get_mode_index(IRQ)] = c.cpsr]
        c2 == [c1 EXCEPT !.banked_r14[get_mode_index(IRQ)] = return_address(c)]
        c3 == switch_mode(c2, IRQ)
        c4 == [c3 EXCEPT !.cpsr = AndW(OrW(@, FLAG_I), NotW(FLAG_T)),
                         !.thumb_mode = FALSE]
    IN  [c4 EXCEPT !.registers[15] = VECTOR_IRQ, !.cycles = @ + 3]

\* handle_fiq with "cpsr |= FLAG_F" alone
handle_fiq_sets_f_only(c) ==
    LET c1 == [c EXCEPT !.spsr[get_mode_index(FIQ)] = c.cpsr]
        c2 == [c1 EXCEPT !.banked_r14[get_mode_index(FIQ)] = return_address(c)]
        c3 == switch_mode(c2, FIQ)
        c4 == [c3 EXCEPT !.cpsr = AndW(OrW(@, FLAG_F), NotW(FLAG_T)),
                         !.thumb_mode = FALSE]
    IN  [c4 EXCEPT !.registers[15] = VECTOR_FIQ, !.cycles = @ + 3]

handle_fiq(c) ==
    LET c1 == [c EXCEPT !.spsr[get_mode_index(FIQ)] = c.cpsr]
        c2 == [c1 EXCEPT !.banked_r14[get_mode_index(FIQ)] = return_address(c)]
        c3 == switch_mode(c2, FIQ)
        c4 == [c3 EXCEPT !.cpsr = AndW(OrW(@, OrW(FLAG_F, FLAG_I)), NotW(FLAG_T)),
                         !.thumb_mode = FALSE]
    IN  [c4 EXCEPT !.registers[15] = VECTOR_FIQ, !.cycles = @ + 3]

\* check_condition with LS computed as !C && Z
check_condition_ls_and(c, condition) ==
    LET N == Flag(c.cpsr, FLAG_N)
        Z == Flag(c.cpsr, FLAG_Z)
        C == Flag(c.cpsr, FLAG_C)
        V == Flag(c.cpsr, FLAG_V)
    IN  CASE condition = 0 -> Z
          [] condition = 1 -> ~Z
          [] condition = 2 -> C
          [] condition = 3 -> ~C
          [] condition = 4 -> N
          [] condition = 5 -> ~N
          [] condition = 6 -> V
          [] condition = 7 -> ~V
          [] condition = 8 -> C /\ ~Z
          [] condition = 9 -> ~C /\ Z
          [] condition = 10 -> (N <=> V)
          [] condition = 11 -> ~(N <=> V)
          [] condition = 12 -> ~Z /\ (N <=> V)
          [] condition = 13 -> Z \/ ~(N <=> V)
          [] condition = 14 -> TRUE
          [] condition = 15 -> FALSE
          [] OTHER -> FALSE

check_condition(c, condition) ==
    LET N == Flag(c.cpsr, FLAG_N)
        Z == Flag(c.cpsr, FLAG_Z)
        C == Flag(c.cpsr, FLAG_C)
        V == Flag(c.cpsr, FLAG_V)
    IN  CASE condition = 0 -> Z
          [] condition = 1 -> ~Z
          [] condition = 2 -> C
          [] condition = 3 -> ~C
          [] condition = 4 -> N
          [] condition = 5 -> ~N
          [] condition = 6 -> V
          [] condition = 7 -> ~V
          [] condition = 8 -> C /\ ~Z
          [] condition = 9 -> ~C \/ Z
          [] condition = 10 -> (N <=> V)
          [] condition = 11 -> ~(N <=> V)
          [] condition = 12 -> ~Z /\ (N <=> V)
          [] condition = 13 -> Z \/ ~(N <=> V)
          [] condition = 14 -> TRUE
          [] condition = 15 -> FALSE
          [] OTHER -> FALSE

\* execute_arm only reports what it decoded; the result names the report:
\* "skip" when the condition fails, else the branch of the decoder taken.
\* No branch changes the CPU or the bus.
arm_decode(c, instruction) ==
    LET condition == (instruction[1] \div 4096) % 16
    IN  IF ~check_condition(c, condition) THEN "skip"
        ELSE IF AndW(instruction, <<4016, 4080>>) = <<256, 144>> THEN "SWP"
        ELSE IF AndW(instruction, <<3840, 0>>) = <<3840, 0>> THEN "SWI"
        ELSE "ARM"

execute_arm(c, instruction) == c

thumb_decode(instruction) ==
    IF BitAnd(instruction, 65280) = 57088 THEN "Thumb SWI" ELSE "Thumb"

execute_thumb(c, instruction) == c

\* the test of step with its "!" missing
irq_taken_when_disabled(c, pending) == Flag(c.cpsr, FLAG_I) /\ pending

\* step's test before any fetch: !(cpsr & FLAG_I) && gba.has_pending_interrupts()
irq_taken(c, pending) == ~Flag(c.cpsr, FLAG_I) /\ pending

\* step without its "cycles++"
step_without_base_cycle(c, pending, word) ==
    IF irq_taken(c, pending) THEN handle_irq(c)
    ELSE IF c.thumb_mode
    THEN LET instruction ==
                 IF BitAnd(c.registers[15][2], 2) # 0 THEN HiHalf(word)
                 ELSE LoHalf(word)
             c1 == [c EXCEPT !.registers[15] = AddW(@, <<0, 2>>)]
         IN  execute_thumb(c1, instruction)
    ELSE LET c1 == [c EXCEPT !.registers[15] = AddW(@, <<0, 4>>)]
         IN  execute_arm(c1, word)

\* ARM7CPU::step; pending is gba.has_pending_interrupts(), word the 32-bit
\* word the bus returns for the fetch at the aligned program counter.
step(c, pending, word) ==
    IF irq_taken(c, pending) THEN handle_irq(c)
    ELSE IF c.thumb_mode
    THEN LET instruction ==
                 IF BitAnd(c.registers[15][2], 2) # 0 THEN HiHalf(word)
                 ELSE LoHalf(word)
             c1 == [c EXCEPT !.registers[15] = AddW(@, <<0, 2>>)]
             c2 == execute_thumb(c1, instruction)
         IN  [c2 EXCEPT !.cycles = @ + 1]
    ELSE LET c1 == [c EXCEPT !.registers[15] = AddW(@, <<0, 4>>)]
             c2 == execute_arm(c1, word)
         IN  [c2 EXCEPT !.cycles = @ + 1]

\* ------------------------------------------------------------------------
\* GBASystem (system.cpp): interrupt controller and I/O registers.  The
\* operators work on a record s of the fields an I/O access can touch.
\* ------------------------------------------------------------------------

Io ==
    [interrupt_enable |-> interrupt_enable,
     interrupt_flags |-> interrupt_flags,
     interrupt_master |-> interrupt_master,
     dispcnt |-> dispcnt, dispstat |-> dispstat,
     bg_control |-> bg_control, bg_scroll_x |-> bg_scroll_x,
     bg_scroll_y |-> bg_scroll_y]

SetIo(s) ==
    /\ interrupt_enable' = s.interrupt_enable
    /\ interrupt_flags' = s.interrupt_flags
    /\ interrupt_master' = s.interrupt_master
    /\ dispcnt' = s.dispcnt
    /\ dispstat' = s.dispstat
    /\ bg_control' = s.bg_control
    /\ bg_scroll_x' = s.bg_scroll_x
    /\ bg_scroll_y' = s.bg_scroll_y

\* request_interrupt with "=" in place of "|="
request_interrupt_assigns(s, interrupt_type) ==
    IF interrupt_type < 0 \/ interrupt_type > 13 THEN s
    ELSE [s EXCEPT !.interrupt_flags = Pow2(interrupt_type)]

\* request_interrupt with the upper limit of its range test one too high
request_interrupt_accepts_14(s, interrupt_type) ==
    IF interrupt_type < 0 \/ interrupt_type > 14 THEN s
    ELSE [s EXCEPT !.interrupt_flags = BitOr(@, Pow2(interrupt_type))]

\* interrupt_flags |= (1 << interrupt_type), for 0 <= interrupt_type <= 13
request_interrupt(s, interrupt_type) ==
    IF interrupt_type < 0 \/ interrupt_type > 13 THEN s
    ELSE [s EXCEPT !.interrupt_flags = BitOr(@, Pow2(interrupt_type))]

\* the test of any bit of IME in place of bit 0
has_pending_interrupts_any_ime(s) ==
    IF s.interrupt_master = Zero32 THEN FALSE
    ELSE BitAnd(s.interrupt_flags, s.interrupt_enable) # 0

has_pending_interrupts(s) ==
    IF ~Flag(s.interrupt_master, <<0, 1>>) THEN FALSE
    ELSE BitAnd(s.interrupt_flags, s.interrupt_enable) # 0

\* GBASystem::check_interrupts with handle_interrupt inlined: TRUE when
\* the call reaches cpu.handle_irq
check_interrupts_fires(s) ==
    /\ Flag(s.interrupt_master, <<0, 1>>)
    /\ BitAnd(s.interrupt_flags, s.interrupt_enable) # 0

\* the acknowledge written as a set: interrupt_flags |= value
ack_flags_sets(flags, value) == BitOr(flags, value % H)

\* interrupt_flags &= ~value
ack_flags(flags, value) == AndNot16(flags, value)

write_io_register(s, address, value) ==
    CASE address = REG_IE ->
            [s EXCEPT !.interrupt_enable = BitOr(BitAnd(@, 65280), value)]
      [] address = REG_IE + 1 ->
            [s EXCEPT !.interrupt_enable = BitOr(BitAnd(@, 255), value * 256)]
      [] address = REG_IF ->
            [s EXCEPT !.interrupt_flags = ack_flags(@, value)]
      [] address = REG_IF + 1 ->
            [s EXCEPT !.interrupt_flags = ack_flags(@, value * 256)]
      [] address = REG_IME ->
            [s EXCEPT !.interrupt_master =
                OrW(AndW(@, <<65535, 65280>>), <<0, value>>)]
      [] address \in {REG_IME + 1, REG_IME + 2, REG_IME + 3} ->
            LET shift == (address - REG_IME) * 8
                mask == NotW(ShlW(255, shift))
            IN  [s EXCEPT !.interrupt_master =
                    OrW(AndW(@, mask), ShlW(value, shift))]
      [] address = REG_DISPCNT ->
            [s EXCEPT !.dispcnt = BitOr(BitAnd(@, 65280), value)]
      [] address = REG_DISPCNT + 1 ->
            [s EXCEPT !.dispcnt = BitOr(BitAnd(@, 255), value * 256)]
      [] address = REG_DISPSTAT ->
            [s EXCEPT !.dispstat = BitOr(BitAnd(@, 65280), BitAnd(value, 248))]
      [] address = REG_DISPSTAT + 1 ->
            [s EXCEPT !.dispstat = BitOr(BitAnd(@, 255), value * 256)]
      [] OTHER -> s

write_io_register16(s, address, value) ==
    CASE address = REG_IE -> [s EXCEPT !.interrupt_enable = value]
      [] address = REG_IF -> [s EXCEPT !.interrupt_flags = ack_flags(@, value)]
      [] address = REG_IME ->
            [s EXCEPT !.interrupt_master = <<@[1], value>>]
      [] address = REG_DISPCNT -> [s EXCEPT !.dispcnt = value]
      [] address = REG_DISPSTAT ->
            [s EXCEPT !.dispstat = BitOr(BitAnd(@, 7), BitAnd(value, 65528))]
      [] address \in {REG_BG0CNT + 2 * n : n \in 0..3} ->
            [s EXCEPT !.bg_control[(address - REG_BG0CNT) \div 2] = value]
      [] address \in {REG_BG0HOFS + 4 * n : n \in 0..3} ->
            [s EXCEPT !.bg_scroll_x[(address - REG_BG0HOFS) \div 4] = value]
      [] address \in {REG_BG0HOFS + 2 + 4 * n : n \in 0..3} ->
            [s EXCEPT !.bg_scroll_y[(address - REG_BG0HOFS - 2) \div 4] = value]
      [] OTHER ->
            write_io_register(write_io_register(s, address, value % 256),
                              address + 1, (value \div 256) % 256)

write_io_register32(s, address, value) ==
    IF address = REG_IME THEN [s EXCEPT !.interrupt_master = value]
    ELSE write_io_register16(write_io_register16(s, address, LoHalf(value)),
                             address + 2, HiHalf(value))

\* ------------------------------------------------------------------------
\* GBAPPU::step (ppu/ppu.cpp), without the rendering of the scanline into
\* the framebuffer.  p holds the PPU counters and the I/O record p.io, on
\* which the interrupt requests act.
\* ------------------------------------------------------------------------

Ppu == [dot |-> dot, scanline |-> scanline, vcount |-> vcount, io |-> Io]

SetPpu(p) ==
    /\ dot' = p.dot
    /\ scanline' = p.scanline
    /\ vcount' = p.vcount
    /\ SetIo(p.io)

\* dispstat |= m, dispstat &= ~m, dispstat & m
PpuSet(p, m) == [p EXCEPT !.io.dispstat = BitOr(@, m)]
PpuClear(p, m) == [p EXCEPT !.io.dispstat = AndNot16(@, m)]
PpuHas(p, m) == BitAnd(p.io.dispstat, m) # 0
PpuRequest(p, t) == [p EXCEPT !.io = request_interrupt(@, t)]

ppu_hblank(p) ==
    IF p.dot = HBLANK_DOT
    THEN LET p1 == PpuSet(p, DISPSTAT_HBLANK)
         IN  IF PpuHas(p1, DISPSTAT_HBLANK_IRQ_ENABLE) THEN PpuRequest(p1, 1)
             ELSE p1
    ELSE p

ppu_vcount_match(p) ==
    LET vcount_setting ==
            (BitAnd(p.io.dispstat, DISPSTAT_VCOUNT_SETTING_MASK) \div 256) % 256
    IN  IF p.vcount = vcount_setting
        THEN LET p1 == PpuSet(p, DISPSTAT_VCOUNT_MATCH)
             IN  IF PpuHas(p1, DISPSTAT_VCOUNT_IRQ_ENABLE) THEN PpuRequest(p1, 2)
                 ELSE p1
        ELSE PpuClear(p, DISPSTAT_VCOUNT_MATCH)

ppu_vblank(p) ==
    IF p.scanline = GBA_SCREEN_HEIGHT
    THEN LET p1 == PpuSet(p, DISPSTAT_VBLANK)
         IN  IF PpuHas(p1, DISPSTAT_VBLANK_IRQ_ENABLE) THEN PpuRequest(p1, 0)
             ELSE p1
    ELSE p

ppu_end_of_frame(p) ==
    IF p.scanline >= TOTAL_SCANLINES
    THEN PpuClear([p EXCEPT !.scanline = 0, !.vcount = 0], DISPSTAT_VBLANK)
    ELSE p

\* the end-of-scanline test written "dot > DOTS_PER_SCANLINE"
ppu_end_of_scanline_late(p) ==
    IF p.dot > DOTS_PER_SCANLINE
    THEN LET p1 == [p EXCEPT !.dot = 0, !.scanline = @ + 1,
                             !.vcount = p.scanline + 1]
             p2 == PpuClear(p1, DISPSTAT_HBLANK)
         IN  ppu_end_of_frame(ppu_vblank(ppu_vcount_match(p2)))
    ELSE p

ppu_end_of_scanline(p) ==
    IF p.dot >= DOTS_PER_SCANLINE
    THEN LET p1 == [p EXCEPT !.dot = 0, !.scanline = @ + 1,
                             !.vcount = p.scanline + 1]
             p2 == PpuClear(p1, DISPSTAT_HBLANK)
         IN  ppu_end_of_frame(ppu_vblank(ppu_vcount_match(p2)))
    ELSE p

ppu_step(p) ==
    ppu_end_of_scanline(ppu_hblank([p EXCEPT !.dot = @ + 1]))

\* ------------------------------------------------------------------------
\* GBAMemory (memory/memory.h, memory/memory.cpp).  A memory m is a record
\* of the byte arrays; each array is kept at the indices of one or two
\* aligned words, rom is the whole vector.  Bus addresses are naturals.
\* ------------------------------------------------------------------------

BIOS_SIZE == 16384
EWRAM_SIZE == 262144
IWRAM_SIZE == 32768
IO_SIZE == 1024
PALETTE_SIZE == 1024
VRAM_SIZE == 98304
OAM_SIZE == 1024

BIOS_START == 0
EWRAM_START == 33554432
IWRAM_START == 50331648
IO_START == 67108864
PALETTE_START == 83886080
VRAM_START == 100663296
OAM_START == 117440512
ROM_START == 134217728

\* indices kept of each array: the first word, for ewram the first two
\* words, for vram the last word, for io_registers also the three words at
\* the bus addresses of IE/IF, 0x04000204 and IME
SampledBios == 0..3
SampledEwram == 0..7
SampledIwram == 0..3
SampledIo == (0..3) \cup ((REG_IE - IO_START)..(REG_IME + 3 - IO_START))
SampledPalette == 0..3
SampledVram == (VRAM_SIZE - 4)..(VRAM_SIZE - 1)
SampledOam == 0..3

\* *reinterpret_cast<const uint32_t*>(&arr[i]) on a little-endian host
Load32(arr, i) == <<arr[i + 3] * 256 + arr[i + 2], arr[i + 1] * 256 + arr[i]>>

\* *reinterpret_cast<uint32_t*>(&arr[i]) = value
Store32(arr, i, value) ==
    [arr EXCEPT ![i] = value[2] % 256, ![i + 1] = value[2] \div 256,
                ![i + 2] = value[1] % 256, ![i + 3] = value[1] \div 256]

\* rom[i] of the vector; an index at or past rom.size() is outside the
\* vector's storage and reads whatever byte junk lies there
RomByte(rom, i, junk) == IF i < Len(rom) THEN rom[i + 1] ELSE junk

LoadRom32(rom, i, junk) ==
    <<RomByte(rom, i + 3, junk) * 256 + RomByte(rom, i + 2, junk),
      RomByte(rom, i + 1, junk) * 256 + RomByte(rom, i, junk)>>

\* address & ~3
Align4(address) == address - (address % 4)

read32(m, address0, junk) ==
    LET address == Align4(address0)
    IN  IF address >= BIOS_START /\ address < BIOS_START + BIOS_SIZE
        THEN Load32(m.bios, address)
        ELSE IF address >= EWRAM_START /\ address < EWRAM_START + EWRAM_SIZE
        THEN Load32(m.ewram, address - EWRAM_START)
        ELSE IF address >= IWRAM_START /\ address < IWRAM_START + IWRAM_SIZE
        THEN Load32(m.iwram, address - IWRAM_START)
        ELSE IF address >= IO_START /\ address < IO_START + IO_SIZE
        THEN Load32(m.io_registers, address - IO_START)
        ELSE IF address >= PALETTE_START /\ address < PALETTE_START + PALETTE_SIZE
        THEN Load32(m.palette, address - PALETTE_START)
        ELSE IF address >= VRAM_START /\ address < VRAM_START + VRAM_SIZE
        THEN Load32(m.vram, address - VRAM_START)
        ELSE IF address >= OAM_START /\ address < OAM_START + OAM_SIZE
        THEN Load32(m.oam, address - OAM_START)
        ELSE IF address >= ROM_START /\ address < ROM_START + Len(m.rom)
        THEN LoadRom32(m.rom, address - ROM_START, junk)
        ELSE Zero32

\* the offsets into rom of the bytes that the 4-byte load of read32 touches
\* when the read is served from the ROM branch; empty otherwise
rom_bytes_read(m, address0) ==
    LET address == Align4(address0)
    IN  IF address >= ROM_START /\ address < ROM_START + Len(m.rom)
        THEN {(address - ROM_START) + k : k \in 0..3}
        ELSE {}

read16(m, address, junk) ==
    LET word == read32(m, Align4(address), junk)
    IN  IF (address \div 2) % 2 = 1 THEN HiHalf(word) ELSE LoHalf(word)

read8(m, address, junk) ==
    LET word == read32(m, Align4(address), junk)
        k == address % 4
    IN  CASE k = 0 -> word[2] % 256
          [] k = 1 -> word[2] \div 256
          [] k = 2 -> word[1] % 256
          [] OTHER -> word[1] \div 256

write32(m, address0, value) ==
    LET address == Align4(address0)
    IN  IF address >= EWRAM_START /\ address < EWRAM_START + EWRAM_SIZE
        THEN [m EXCEPT !.ewram = Store32(@, address - EWRAM_START, value)]
        ELSE IF address >= IWRAM_START /\ address < IWRAM_START + IWRAM_SIZE
        THEN [m EXCEPT !.iwram = Store32(@, address - IWRAM_START, value)]
        ELSE IF address >= IO_START /\ address < IO_START + IO_SIZE
        THEN [m EXCEPT !.io_registers = Store32(@, address - IO_START, value)]
        ELSE IF address >= PALETTE_START /\ address < PALETTE_START + PALETTE_SIZE
        THEN [m EXCEPT !.palette = Store32(@, address - PALETTE_START, value)]
        ELSE IF address >= VRAM_START /\ address < VRAM_START + VRAM_SIZE
        THEN [m EXCEPT !.vram = Store32(@, address - VRAM_START, value)]
        ELSE IF address >= OAM_START /\ address < OAM_START + OAM_SIZE
        THEN [m EXCEPT !.oam = Store32(@, address - OAM_START, value)]
        ELSE m

\* In the odd-address branch the mask 0xFFFF << shift is computed in int;
\* for shift = 24 the result does not fit and the build keeps its low 32
\* bits, 0xFF000000, as ShlW does.
write16(m, address, value, junk) ==
    LET aligned_addr == Align4(address)
        old_value == read32(m, aligned_addr, junk)
    IN  IF address % 2 = 1
        THEN LET shift == (address % 4) * 8
                 mask == ShlW(65535, shift)
                 new_value == OrW(AndW(old_value, NotW(mask)), ShlW(value, shift))
             IN  write32(m, aligned_addr, new_value)
        ELSE IF (address \div 2) % 2 = 1
        THEN write32(m, aligned_addr,
                     OrW(AndW(old_value, <<0, 65535>>), ShlW(value, 16)))
        ELSE write32(m, aligned_addr,
                     OrW(AndW(old_value, <<65535, 0>>), <<0, value>>))

\* write8 that stores the byte shifted into an otherwise cleared word
write8_without_merge(m, address, value, junk) ==
    write32(m, Align4(address), ShlW(value, (address % 4) * 8))

write8(m, address, value, junk) ==
    LET aligned_addr == Align4(address)
        old_value == read32(m, aligned_addr, junk)
        shift == (address % 4) * 8
        mask == ShlW(255, shift)
        new_value == OrW(AndW(old_value, NotW(mask)), ShlW(value, shift))
    IN  write32(m, aligned_addr, new_value)

\* GBAMemory::reset: the writable arrays are cleared, bios and rom kept
memory_reset(m) ==
    [m EXCEPT !.ewram = [i \in SampledEwram |-> 0],
              !.iwram = [i \in SampledIwram |-> 0],
              !.io_registers = [i \in SampledIo |-> 0],
              !.palette = [i \in SampledPalette |-> 0],
              !.vram = [i \in SampledVram |-> 0],
              !.oam = [i \in SampledOam |-> 0]]

is_writable(address) ==
    \/ (address >= EWRAM_START /\ address < EWRAM_START + EWRAM_SIZE)
    \/ (address >= IWRAM_START /\ address < IWRAM_START + IWRAM_SIZE)
    \/ (address >= IO_START /\ address < IO_START + IO_SIZE)
    \/ (address >= PALETTE_START /\ address < PALETTE_START + PALETTE_SIZE)
    \/ (address >= VRAM_START /\ address < VRAM_START + VRAM_SIZE)
    \/ (address >= OAM_START /\ address < OAM_START + OAM_SIZE)

is_readable(m, address) ==
    \/ (address >= BIOS_START /\ address < BIOS_START + BIOS_SIZE)
    \/ is_writable(address)
    \/ (address >= ROM_START /\ address < ROM_START + Len(m.rom))

\* the memory of a constructed GBASystem after init(): value-initialised
\* arrays, an empty rom vector
MemPowerOn ==
    [bios |-> [i \in SampledBios |-> 0],
     ewram |-> [i \in SampledEwram |-> 0],
     iwram |-> [i \in SampledIwram |-> 0],
     io_registers |-> [i \in SampledIo |-> 0],
     palette |-> [i \in SampledPalette |-> 0],
     vram |-> [i \in SampledVram |-> 0],
     oam |-> [i \in SampledOam |-> 0],
     rom |-> <<>>]

\* ------------------------------------------------------------------------
\* Initial state: GBASystem::GBASystem() followed by GBASystem::init()
\* ------------------------------------------------------------------------

PpuInit ==
    /\ dispcnt = 0 /\ dispstat = 0 /\ vcount = 0 /\ scanline = 0 /\ dot = 0
    /\ bg_control = [n \in 0..3 |-> 0]
    /\ bg_scroll_x = [n \in 0..3 |-> 0]
    /\ bg_scroll_y = [n \in 0..3 |-> 0]

NoLast ==
    [op |-> "init", a |-> 0, v |-> Zero32, irq |-> FALSE, out |-> "none",
     req |-> 0, cpsr0 |-> Zero32, pc0 |-> Zero32, pend0 |-> FALSE,
     ie0 |-> 0, if0 |-> 0, ime0 |-> Zero32, req0 |-> 0]

\* The record of an operation op with argument a and value v, started in
\* the current state.
Last(op, a, v) ==
    [NoLast EXCEPT !.op = op, !.a = a, !.v = v,
                   !.cpsr0 = cpsr, !.pc0 = registers[15],
                   !.pend0 = has_pending_interrupts(Io),
                   !.ie0 = interrupt_enable, !.if0 = interrupt_flags,
                   !.ime0 = interrupt_master]

NoTrip ==
    [phase |-> "none", from |-> SYSTEM, to |-> SYSTEM,
     snap |-> [r \in 8..14 |-> Zero32]]

Init ==
    /\ registers = CpuReset.registers
    /\ cpsr = CpuReset.cpsr
    /\ spsr = CpuReset.spsr
    /\ banked_r13 = CpuReset.banked_r13
    /\ banked_r14 = CpuReset.banked_r14
    /\ banked_r8_r12 = CpuReset.banked_r8_r12
    /\ thumb_mode = CpuReset.thumb_mode
    /\ cycles = CpuReset.cycles
    /\ running = FALSE
    /\ interrupt_enable = 0
    /\ interrupt_flags = 0
    /\ interrupt_master = Zero32
    /\ PpuInit
    /\ phase = "idle"
    /\ frame_i = 0
    /\ last = NoLast
    /\ nops = 0
    /\ trip = NoTrip
    /\ cc_cond = 0
    /\ cc_result = <<>>
    /\ mem = MemPowerOn

\* ------------------------------------------------------------------------
\* Spec: the CPU and the interrupt controller driven through their public
\* operations in any order.
\* ------------------------------------------------------------------------

MaxCycles == 6
MaxDot == 1

\* words the bus returns for an instruction fetch: condition EQ (fails while
\* Z is clear), AL with a data-processing pattern, AL with the SWI pattern
FetchWords == {<<0, 0>>, <<57344, 0>>, <<61184, 0>>}

ReqTypes == {0, 1, 14}
CtlAddrs == {REG_IE, REG_IF, REG_IME}
CtlVals == {0, 1}

\* what step reports for the fetched word: "none" when it takes the IRQ and
\* fetches nothing
step_report(c, pending, word) ==
    IF irq_taken(c, pending) THEN "none"
    ELSE IF c.thumb_mode
    THEN thumb_decode(IF BitAnd(c.registers[15][2], 2) # 0 THEN HiHalf(word)
                      ELSE LoHalf(word))
    ELSE arm_decode(c, word)

\* cpu.step(gba) as one operation on the variables
DoStep(word) ==
    LET pending == has_pending_interrupts(Io)
        taken == irq_taken(Cpu, pending)
    IN  /\ SetCpu(step(Cpu, pending, word))
        /\ last' = [Last("step", 0, word) EXCEPT
                        !.irq = taken,
                        !.out = step_report(Cpu, pending, word),
                        !.req0 = IF last.op = "ppu" THEN last.req ELSE 0]
        /\ UNCHANGED <<irqVars, ppuVars, bankVars, ccVars, mem>>

\* the interrupt types a PPU tick from p requests, as a bit mask
ppu_requests(p) ==
    ppu_step([p EXCEPT !.io.interrupt_flags = 0]).io.interrupt_flags

\* ppu.step(gba) as one operation on the variables
DoPpuStep ==
    /\ SetPpu(ppu_step(Ppu))
    /\ last' = [Last("ppu", 0, Zero32) EXCEPT !.req = ppu_requests(Ppu)]
    /\ UNCHANGED <<cpuVars, bankVars, ccVars, mem>>

Step ==
    /\ cycles < MaxCycles
    /\ \E word \in FetchWords : DoStep(word)
    /\ UNCHANGED frameVars

PpuStep ==
    /\ dot < MaxDot
    /\ DoPpuStep
    /\ UNCHANGED frameVars

RequestInterrupt ==
    \E t \in ReqTypes :
        /\ SetIo(request_interrupt(Io, t))
        /\ last' = Last("request", t, Zero32)
        /\ UNCHANGED <<cpuVars, vcount, scanline, dot, frameVars, bankVars, ccVars, mem>>

CheckInterrupts ==
    /\ cycles < MaxCycles
    /\ IF check_interrupts_fires(Io) THEN SetCpu(handle_irq(Cpu))
       ELSE UNCHANGED cpuVars
    /\ last' = [Last("check", 0, Zero32) EXCEPT !.irq = check_interrupts_fires(Io)]
    /\ UNCHANGED <<irqVars, ppuVars, frameVars, bankVars, ccVars, mem>>

DoWrite8(address, value) ==
    /\ SetIo(write_io_register(Io, address, value))
    /\ last' = Last("write8", address, <<0, value>>)
    /\ UNCHANGED <<cpuVars, vcount, scanline, dot, bankVars, ccVars, mem>>

DoWrite16(address, value) ==
    /\ SetIo(write_io_register16(Io, address, value))
    /\ last' = Last("write16", address, <<0, value>>)
    /\ UNCHANGED <<cpuVars, vcount, scanline, dot, bankVars, ccVars, mem>>

DoWrite32(address, value) ==
    /\ SetIo(write_io_register32(Io, address, value))
    /\ last' = Last("write32", address, value)
    /\ UNCHANGED <<cpuVars, vcount, scanline, dot, bankVars, ccVars, mem>>

WriteIo8 ==
    /\ \E a \in CtlAddrs, v \in CtlVals : DoWrite8(a, v)
    /\ UNCHANGED frameVars

WriteIo16 ==
    /\ \E a \in CtlAddrs, v \in CtlVals : DoWrite16(a, v)
    /\ UNCHANGED frameVars

WriteIo32 ==
    /\ \E a \in {REG_IE, REG_IME}, v \in {<<hi, lo>> : hi \in CtlVals, lo \in CtlVals} :
            DoWrite32(a, v)
    /\ UNCHANGED frameVars

\* GBASystem::reset: cpu.reset(), ppu.init(), memory.reset()
Reset ==
    /\ SetCpu(CpuReset)
    /\ dispcnt' = 0 /\ dispstat' = 0 /\ vcount' = 0 /\ scanline' = 0 /\ dot' = 0
    /\ bg_control' = [n \in 0..3 |-> 0]
    /\ bg_scroll_x' = [n \in 0..3 |-> 0]
    /\ bg_scroll_y' = [n \in 0..3 |-> 0]
    /\ mem' = memory_reset(mem)
    /\ last' = Last("reset", 0, Zero32)
    /\ UNCHANGED <<irqVars, frameVars, bankVars, ccVars>>

Next ==
    \/ Step
    \/ PpuStep
    \/ RequestInterrupt
    \/ CheckInterrupts
    \/ WriteIo8
    \/ WriteIo16
    \/ WriteIo32
    \/ Reset

Spec == Init /\ [][Next]_vars

\* ------------------------------------------------------------------------
\* Properties of Spec
\* ------------------------------------------------------------------------

ModeOf(w) == AndW(w, <<0, 31>>)[2]

\* the byte an I/O write l stores at bus address `address`, -1 when the
\* write does not cover that address
WrittenByte(l, address) ==
    LET width == CASE l.op = "write8" -> 1
                   [] l.op = "write16" -> 2
                   [] l.op = "write32" -> 4
                   [] OTHER -> 0
        k == address - l.a
    IN  IF k < 0 \/ k >= width THEN -1
        ELSE CASE k = 0 -> l.v[2] % 256
               [] k = 1 -> l.v[2] \div 256
               [] k = 2 -> l.v[1] % 256
               [] OTHER -> l.v[1] \div 256

\* the state a step started from is the one C1 describes
C1_Pre ==
    /\ last.op = "step"
    /\ ModeOf(last.cpsr0) = SYSTEM
    /\ ~Flag(last.cpsr0, FLAG_T)
    /\ ~Flag(last.cpsr0, FLAG_I)
    /\ Flag(last.ime0, <<0, 1>>)
    /\ BitAnd(last.if0, last.ie0) # 0

\* C1: a step that starts in System mode and ARM state with the I bit
\* clear, IME bit 0 set and (IF AND IE) non-zero takes the IRQ: afterwards
\* the mode is IRQ, T and thumb_mode are clear, I is set, PC = 0x18 and
\* SPSR_irq holds the CPSR the step started with.
C1_StepTakesIrq ==
    C1_Pre =>
        /\ ModeOf(cpsr) = IRQ
        /\ ~Flag(cpsr, FLAG_T)
        /\ ~thumb_mode
        /\ Flag(cpsr, FLAG_I)
        /\ registers[15] = VECTOR_IRQ
        /\ spsr[get_mode_index(IRQ)] = last.cpsr0

C1_Witness == C1_Pre /\ ModeOf(cpsr) = IRQ /\ last.irq

\* C3: every IRQ entry (by step or by check_interrupts) starts from a state
\* where has_pending_interrupts() is true and the CPSR I bit is clear.
C3_EntryGated ==
    last.irq => (last.pend0 /\ ~Flag(last.cpsr0, FLAG_I))

\* C4: a step that starts with an interrupt pending and the F bit clear
\* enters FIQ (mode FIQ, PC = 0x1C), whether the I bit is clear (FIQ wins
\* over the IRQ that is eligible too) or set (FIQ is masked by F alone).
C4_FiqFirst ==
    (last.op = "step" /\ last.pend0 /\ ~Flag(last.cpsr0, FLAG_F)) =>
        (ModeOf(cpsr) = FIQ /\ registers[15] = VECTOR_FIQ)

\* the last operation wrote a 1 to bit 0 of the IF register
AcksBit0 ==
    WrittenByte(last, REG_IF) >= 0 /\ WrittenByte(last, REG_IF) % 2 = 1

\* C9: bit 0 of IF, once set, is cleared by no operation other than an I/O
\* write that stores a 1 at bit 0 of the IF register: not by the IRQ entry
\* of step or check_interrupts, nor by later CPU steps, PPU steps, requests
\* or a reset.
C9_IfBit0ClearedOnlyByAck ==
    (Bit(last.if0, 0) /\ ~Bit(interrupt_flags, 0)) => AcksBit0

\* the V-blank request is still flagged after the IRQ entry it caused, a
\* later CPU step and a PPU step
C9_Witness ==
    /\ Bit(interrupt_flags, 0)
    /\ ModeOf(cpsr) = IRQ
    /\ spsr[get_mode_index(IRQ)] = <<0, SYSTEM>>
    /\ registers[15] = AddW(VECTOR_IRQ, <<0, 4>>)
    /\ last.op = "ppu"

\* C13: a step that fetches an ARM word whose condition passes and which
\* the decoder reports as neither SWP nor SWI ends in Undefined mode with
\* the PC at the Undefined-instruction vector.
C13_UndefinedTaken ==
    (last.op = "step" /\ ~last.irq /\ last.out = "ARM") =>
        (ModeOf(cpsr) = UNDEFINED /\ registers[15] = VECTOR_UNDEFINED)

\* C16: but for reset, a transition changes the R13 or R14 slot of a bank
\* only when the CPU is in a mode of that bank before it and in a mode of
\* another bank after it, and changes the FIQ slots of R8-R12 only when it
\* leaves FIQ mode; and R8-R14 change only in a transition that enters a
\* mode of another bank.
C16_BankDiscipline ==
    [][last'.op # "reset" =>
        /\ \A i \in 0..5 :
            (banked_r13'[i] # banked_r13[i] \/ banked_r14'[i] # banked_r14[i]) =>
                /\ get_mode_index(ModeOf(cpsr)) = i
                /\ get_mode_index(ModeOf(cpsr')) # i
        /\ (\E k \in 0..4 : banked_r8_r12'[k] # banked_r8_r12[k]) =>
                (ModeOf(cpsr) = FIQ /\ ModeOf(cpsr') # FIQ)
        /\ (\E r \in 8..14 : registers'[r] # registers[r]) =>
                get_mode_index(ModeOf(cpsr')) # get_mode_index(ModeOf(cpsr)) ]_vars

\* C17: right after construction or reset the PC is 0x08000000, the CPSR
\* is System mode with N, Z, C, V, I, F, T clear, and R13 reads the System
\* stack pointer 0x03007F00; in IRQ mode, which is then entered for the
\* first time, R13 reads 0x03007FA0.
C17_PowerOnState ==
    /\ last.op \in {"init", "reset"} =>
        /\ registers[15] = <<2048, 0>>
        /\ cpsr = <<0, SYSTEM>>
        /\ ~thumb_mode
        /\ registers[13] = <<768, 32512>>
    /\ ModeOf(cpsr) = IRQ => registers[13] = <<768, 32672>>

\* ------------------------------------------------------------------------
\* SpecEntry: the IRQ entry scenario.  The controller is armed for V-blank
\* (IE bit 0, IME, request 0) and the CPU runs instructions from the reset
\* vector; the bus returns 0 for every fetch (no ROM loaded).
\* ------------------------------------------------------------------------

MaxEntryCycles == 66

EntryStep ==
    /\ cycles < MaxEntryCycles
    /\ DoStep(Zero32)
    /\ UNCHANGED frameVars

EntryArm ==
    /\ \/ DoWrite16(REG_IE, 1)
       \/ DoWrite16(REG_IME, 1)
       \/ /\ SetIo(request_interrupt(Io, 0))
          /\ last' = Last("request", 0, Zero32)
          /\ UNCHANGED <<cpuVars, vcount, scanline, dot, bankVars, ccVars, mem>>
    /\ UNCHANGED frameVars

EntryNext == EntryStep \/ EntryArm

SpecEntry == Init /\ [][EntryNext]_vars

\* C2: a step that takes the IRQ from ARM state in System mode with flags
\* clear, PC = 0x08000100, IME set, IE bit 0 set and IF bit 0 pending
\* leaves R14_irq = 0x08000104.
C2_LinkRegister ==
    (/\ last.op = "step"
     /\ last.cpsr0 = <<0, SYSTEM>>
     /\ last.pc0 = <<2048, 256>>
     /\ Flag(last.ime0, <<0, 1>>)
     /\ Bit(last.ie0, 0)
     /\ Bit(last.if0, 0)) =>
        (registers[14] = <<2048, 260>> /\ banked_r14[get_mode_index(IRQ)] = <<2048, 260>>)

\* ------------------------------------------------------------------------
\* SpecBank: the register and mode bank on its own.  switch_mode is applied
\* with any target mode and the visible R8-R14 are written between switches
\* (what the data-processing and load instructions of a complete decoder
\* do to ARM7CPU::registers).
\* ------------------------------------------------------------------------

MaxBankOps == 4

\* values written to the visible registers
RegVals == {<<768, 32512>>, <<57005, 48879>>}

\* the round trip under way after a switch from mode prior to mode target
TripAfterSwitch(prior, target) ==
    IF prior = target THEN NoTrip
    ELSE IF trip.phase = "in" /\ prior = trip.to /\ target = trip.from
    THEN [trip EXCEPT !.phase = "back"]
    ELSE [phase |-> "in", from |-> prior, to |-> target,
          snap |-> [r \in 8..14 |-> registers[r]]]

BankSwitch ==
    /\ nops < MaxBankOps
    /\ \E m \in CpuMode :
        /\ SetCpu(switch_mode(Cpu, m))
        /\ trip' = TripAfterSwitch(get_current_mode(Cpu), m)
        /\ last' = Last("switch", m, Zero32)
    /\ nops' = nops + 1
    /\ UNCHANGED <<irqVars, ppuVars, frameVars, ccVars, mem>>

BankWrite ==
    /\ nops < MaxBankOps
    /\ \E r \in 8..14, v \in RegVals :
        /\ registers' = [registers EXCEPT ![r] = v]
        /\ last' = Last("write_reg", r, v)
    /\ trip' = IF trip.phase = "in" THEN trip ELSE NoTrip
    /\ nops' = nops + 1
    /\ UNCHANGED <<cpsr, spsr, banked_r13, banked_r14, banked_r8_r12,
                   thumb_mode, cycles, irqVars, ppuVars, frameVars, ccVars, mem>>

BankNext == BankSwitch \/ BankWrite

SpecBank == Init /\ [][BankNext]_vars

\* C5: after a switch from System to IRQ mode, any writes to the visible
\* registers while in IRQ mode, and a switch back to System, R13 and R14
\* have the values they had before the first switch.
C5_ModeRoundTrip ==
    (trip.phase = "back" /\ trip.from = SYSTEM /\ trip.to = IRQ) =>
        (registers[13] = trip.snap[13] /\ registers[14] = trip.snap[14])

\* a System -> IRQ -> System round trip that started with R13 and R14
\* written by the program (not the reset values), after the IRQ-mode
\* registers were overwritten too
C5_Witness ==
    /\ trip.phase = "back" /\ trip.from = SYSTEM /\ trip.to = IRQ
    /\ trip.snap[14] = <<57005, 48879>>
    /\ registers[14] = <<57005, 48879>>
    /\ banked_r14[get_mode_index(IRQ)] = <<768, 32512>>

\* C6: after a switch from a non-FIQ mode into FIQ mode and back to the
\* original mode, R8-R12 have the values they had before entering FIQ.
C6_FiqRoundTrip ==
    (trip.phase = "back" /\ trip.from # FIQ /\ trip.to = FIQ) =>
        \A r \in 8..12 : registers[r] = trip.snap[r]

\* ------------------------------------------------------------------------
\* SpecCond: check_condition applied to any condition code under any
\* combination of the N, Z, C, V flags and several settings of the other
\* CPSR bits.
\* ------------------------------------------------------------------------

\* upper halves of the CPSR: the flags in bits 28-31, bits 16-27 all clear
\* or all set
CondHi == {k * 4096 + e : k \in 0..15, e \in {0, 4095}}
\* lower halves: System; System with I and F; IRQ mode with T; all bits set
CondLo == {SYSTEM, SYSTEM + 128 + 64, IRQ + 32, 65535}

CondInit ==
    /\ registers = CpuReset.registers
    /\ cpsr \in {<<hi, lo>> : hi \in CondHi, lo \in CondLo}
    /\ spsr = CpuReset.spsr
    /\ banked_r13 = CpuReset.banked_r13
    /\ banked_r14 = CpuReset.banked_r14
    /\ banked_r8_r12 = CpuReset.banked_r8_r12
    /\ thumb_mode = CpuReset.thumb_mode
    /\ cycles = CpuReset.cycles
    /\ running = FALSE
    /\ interrupt_enable = 0
    /\ interrupt_flags = 0
    /\ interrupt_master = Zero32
    /\ PpuInit
    /\ phase = "idle"
    /\ frame_i = 0
    /\ last = NoLast
    /\ nops = 0
    /\ trip = NoTrip
    /\ cc_cond \in 0..15
    /\ cc_result = <<>>
    /\ mem = MemPowerOn

CondEval ==
    /\ cc_result = <<>>
    /\ cc_result' = <<check_condition(Cpu, cc_cond)>>
    /\ UNCHANGED <<cpuVars, irqVars, ppuVars, frameVars, last, bankVars, cc_cond, mem>>

SpecCond == CondInit /\ [][CondEval]_vars

\* the documented table, over the four flag bits of the CPSR
CondTable(n, z, c, v) ==
    <<z, ~z, c, ~c, n, ~n, v, ~v, c /\ ~z, ~c \/ z,
      n = v, n # v, ~z /\ (n = v), z \/ (n # v), TRUE, FALSE>>

\* C7: for every condition code and every combination of N, Z, C, V,
\* check_condition returns the value of the documented table, whatever the
\* other CPSR bits are.
C7_ConditionTable ==
    cc_result # <<>> =>
        cc_result[1] =
            CondTable((cpsr[1] \div 32768) % 2 = 1, (cpsr[1] \div 16384) % 2 = 1,
                      (cpsr[1] \div 8192) % 2 = 1, (cpsr[1] \div 4096) % 2 = 1)[cc_cond + 1]

\* LE evaluated with Z clear, N set, V clear and every other bit set
C7_Witness ==
    /\ cc_result = <<TRUE>>
    /\ cc_cond = 13
    /\ cpsr = <<32768 + 4095, 65535>>

\* ------------------------------------------------------------------------
\* SpecIo: the I/O register file.  Interrupts are requested and registers
\* written with 8-, 16- and 32-bit accesses at and around the interrupt
\* registers.
\* ------------------------------------------------------------------------

IoReqTypes == {-1, 0, 9, 13, 14}
IoAddrs == {REG_IE + 1, REG_IF, REG_IF + 1}
IoAddrs32 == {REG_IE, REG_IF}
IoVals8 == {1, 130, 255}
IoVals16 == {1, 8705, 65535}
IoVals32 == {<<1, 0>>, <<8705, 513>>}

IoRequest ==
    /\ \E t \in IoReqTypes :
        /\ SetIo(request_interrupt(Io, t))
        /\ last' = Last("request", t, Zero32)
    /\ UNCHANGED <<cpuVars, vcount, scanline, dot, frameVars, bankVars, ccVars, mem>>

IoWrite8 ==
    /\ \E a \in IoAddrs, v \in IoVals8 : DoWrite8(a, v)
    /\ UNCHANGED frameVars

IoWrite16 ==
    /\ \E a \in IoAddrs, v \in IoVals16 : DoWrite16(a, v)
    /\ UNCHANGED frameVars

IoWrite32 ==
    /\ \E a \in IoAddrs32, v \in IoVals32 : DoWrite32(a, v)
    /\ UNCHANGED frameVars

IoNext == IoRequest \/ IoWrite8 \/ IoWrite16 \/ IoWrite32

SpecIo == Init /\ [][IoNext]_vars

IsWrite(l) == l.op \in {"write8", "write16", "write32"}

\* C10: an 8-bit write at REG_IF or REG_IF + 1 and a 16-bit write at REG_IF
\* leave IF = old IF AND NOT (the written value at the written bit
\* positions), and no I/O register write of any width sets an IF bit.
C10_WriteToClear ==
    /\ (last.op = "write8" /\ last.a = REG_IF) =>
            interrupt_flags = BitAnd(last.if0, 65535 - last.v[2])
    /\ (last.op = "write8" /\ last.a = REG_IF + 1) =>
            interrupt_flags = BitAnd(last.if0, 65535 - 256 * last.v[2])
    /\ (last.op = "write16" /\ last.a = REG_IF) =>
            interrupt_flags = BitAnd(last.if0, 65535 - last.v[2])
    /\ IsWrite(last) => BitAnd(interrupt_flags, 65535 - last.if0) = 0

\* an 8-bit write of 0x82 at REG_IF + 1 with bits 0, 9 and 13 pending
\* clears bit 9 and keeps bits 0 and 13
C10_Witness ==
    /\ last.op = "write8"
    /\ last.a = REG_IF + 1
    /\ last.v = <<0, 130>>
    /\ last.if0 = 1 + 512 + 8192
    /\ interrupt_flags = 1 + 8192

\* C12: request_interrupt(t) with t < 0 or t > 13 leaves IF, IE and IME as
\* they were; with 0 <= t <= 13 it sets bit t of IF and no other bit, and
\* leaves IE, IME, the CPU and the PPU as they were; bits 14 and 15 of IF
\* are never set.
C12_RequestInRange ==
    /\ [](/\ ~Bit(interrupt_flags, 14) /\ ~Bit(interrupt_flags, 15)
          /\ last.op = "request" =>
                /\ interrupt_enable = last.ie0
                /\ interrupt_master = last.ime0
                /\ (last.a < 0 \/ last.a > 13) => interrupt_flags = last.if0
                /\ (last.a >= 0 /\ last.a <= 13) =>
                       \A k \in 0..15 :
                           Bit(interrupt_flags, k) <=> (k = last.a \/ Bit(last.if0, k)))
    /\ [][last'.op = "request" =>
            UNCHANGED <<cpuVars, ppuVars, frameVars,
                        interrupt_enable, interrupt_master>>]_vars

\* request_interrupt(14) made with bits 0 and 13 pending
C12_Witness ==
    /\ last.op = "request"
    /\ last.a = 14
    /\ last.if0 = 8193
    /\ interrupt_flags = 8193

\* ------------------------------------------------------------------------
\* SpecFrame: GBASystem::run_frame.  While no frame runs the host enables
\* interrupt sources through the I/O registers and sets `running`
\* (main.cpp); run_frame then alternates one CPU step and one PPU step.
\* ------------------------------------------------------------------------

FRAME_ITERATIONS == 280896
MaxFrameIter == 310

\* (address, value) of the 16-bit I/O writes made before a frame: IE for
\* H-blank or V-count, IME, DISPSTAT with the H-blank IRQ enable alone or
\* with the V-count IRQ enable and V-count setting 1
FrameSetups ==
    {<<REG_IE, 2>>, <<REG_IE, 4>>, <<REG_IME, 1>>,
     <<REG_DISPSTAT, 16>>, <<REG_DISPSTAT, 304>>}

FrameSetup ==
    /\ phase = "idle"
    /\ \E w \in FrameSetups : DoWrite16(w[1], w[2])
    /\ UNCHANGED frameVars

\* main.cpp: gba.running = true
FrameStart ==
    /\ phase = "idle"
    /\ ~running
    /\ running' = TRUE
    /\ last' = Last("running", 0, Zero32)
    /\ UNCHANGED <<cpuVars, irqVars, ppuVars, phase, frame_i, bankVars, ccVars, mem>>

RunFrame ==
    /\ phase = "idle"
    /\ phase' = "cpu"
    /\ frame_i' = 0
    /\ last' = Last("run_frame", 0, Zero32)
    /\ UNCHANGED <<cpuVars, irqVars, ppuVars, running, bankVars, ccVars, mem>>

FrameCpuStep ==
    /\ phase = "cpu"
    /\ frame_i < FRAME_ITERATIONS /\ running
    /\ frame_i < MaxFrameIter
    /\ \E word \in FetchWords : DoStep(word)
    /\ phase' = "ppu"
    /\ UNCHANGED <<running, frame_i>>

FramePpuStep ==
    /\ phase = "ppu"
    /\ DoPpuStep
    /\ phase' = "cpu"
    /\ frame_i' = frame_i + 1
    /\ UNCHANGED running

FrameReturn ==
    /\ phase = "cpu"
    /\ ~(frame_i < FRAME_ITERATIONS /\ running)
    /\ phase' = "idle"
    /\ last' = Last("return", 0, Zero32)
    /\ UNCHANGED <<cpuVars, irqVars, ppuVars, running, frame_i, bankVars, ccVars, mem>>

FrameNext ==
    \/ FrameSetup
    \/ FrameStart
    \/ RunFrame
    \/ FrameCpuStep
    \/ FramePpuStep
    \/ FrameReturn

SpecFrame == Init /\ [][FrameNext]_vars

\* C8: in the run_frame loop a PPU tick changes nothing of the CPU (the
\* step before it stands as it was), and the CPU step that follows a tick
\* which requested an enabled interrupt, with IME set and the I bit clear,
\* takes the IRQ and fetches nothing: its test of the pending state comes
\* before any fetch.
C8_SampledBeforeFetch ==
    [][ /\ (last'.op = "ppu" => UNCHANGED cpuVars)
        /\ (/\ last.op = "ppu"
            /\ BitAnd(last.req, interrupt_enable) # 0
            /\ Flag(interrupt_master, <<0, 1>>)
            /\ ~Flag(cpsr, FLAG_I)
            /\ last'.op = "step")
           => (/\ last'.irq
               /\ last'.out = "none"
               /\ ModeOf(cpsr') = IRQ
               /\ registers'[15] = VECTOR_IRQ
               /\ cycles' = cycles + 3) ]_vars

\* CPU step 241 of a frame, taking the H-blank interrupt that the PPU tick
\* after step 240 requested
C8_Witness ==
    /\ last.op = "step"
    /\ last.irq
    /\ last.req0 = 2
    /\ BitAnd(last.req0, last.ie0) # 0
    /\ frame_i = HBLANK_DOT
    /\ registers[15] = VECTOR_IRQ

\* ------------------------------------------------------------------------
\* SpecPending: has_pending_interrupts evaluated over values of IME, IE and
\* IF that register writes and requests can leave behind.
\* ------------------------------------------------------------------------

\* IME: clear, bit 0 alone, bit 1 alone, bits 0 and 1, bit 16 alone, bit 16
\* with bit 0
PendImes == {<<0, 0>>, <<0, 1>>, <<0, 2>>, <<0, 3>>, <<1, 0>>, <<1, 1>>}
\* IE: any 16-bit value can be written
PendIes == {0, 1, 2, 512, 8192, 16383, 32768, 65535}
\* IF: bits 0..13 can be requested
PendIfs == {0, 1, 2, 512, 8192, 8193, 16383}

PendInit ==
    /\ registers = CpuReset.registers
    /\ cpsr = CpuReset.cpsr
    /\ spsr = CpuReset.spsr
    /\ banked_r13 = CpuReset.banked_r13
    /\ banked_r14 = CpuReset.banked_r14
    /\ banked_r8_r12 = CpuReset.banked_r8_r12
    /\ thumb_mode = CpuReset.thumb_mode
    /\ cycles = CpuReset.cycles
    /\ running = FALSE
    /\ interrupt_enable \in PendIes
    /\ interrupt_flags \in PendIfs
    /\ interrupt_master \in PendImes
    /\ PpuInit
    /\ phase = "idle"
    /\ frame_i = 0
    /\ last = NoLast
    /\ nops = 0
    /\ trip = NoTrip
    /\ cc_cond = 0
    /\ cc_result = <<>>
    /\ mem = MemPowerOn

\* gba.has_pending_interrupts(): a const member, its result kept in
\* last.pend0
PendEval ==
    /\ last.op = "init"
    /\ last' = Last("has_pending_interrupts", 0, Zero32)
    /\ UNCHANGED <<cpuVars, irqVars, ppuVars, frameVars, bankVars, ccVars, mem>>

SpecPending == PendInit /\ [][PendEval]_vars

\* C11: has_pending_interrupts returns true exactly when bit 0 of IME is set
\* and some bit is set in both IF and IE, and the call leaves IME, IE, IF,
\* the CPU and the PPU as they were.
C11_PendingExact ==
    /\ [](last.op = "has_pending_interrupts" =>
            (last.pend0 <=>
                (/\ interrupt_master[2] % 2 = 1
                 /\ \E k \in 0..15 : Bit(interrupt_flags, k) /\ Bit(interrupt_enable, k))))
    /\ [][last'.op = "has_pending_interrupts" =>
            UNCHANGED <<cpuVars, irqVars, ppuVars, frameVars>>]_vars

\* evaluated to false with IF and IE sharing bit 13 and IME = 0x00010000:
\* master enable is bit 0 alone
C11_Witness ==
    /\ last.op = "has_pending_interrupts"
    /\ ~last.pend0
    /\ interrupt_master = <<1, 0>>
    /\ interrupt_flags = 8193
    /\ interrupt_enable = 8192

\* ------------------------------------------------------------------------
\* SpecExc: the exception entries and switch_mode applied to a CPU whose
\* CPSR holds any of several flag, disable-bit, state-bit and mode settings.
\* ------------------------------------------------------------------------

MaxExcOps == 2

\* upper halves of the CPSR: flags clear, N Z C V all set, N and V set
ExcHi == {0, 61440, 36864}
\* bits 5..7 of the CPSR: none, T, F, I, I and F, I and F and T
ExcBits == {0, 32, 64, 128, 192, 224}
ExcModes == {USER, FIQ, IRQ, SUPERVISOR, SYSTEM}

ExcInit ==
    /\ registers = CpuReset.registers
    /\ cpsr \in {<<hi, b + m>> : hi \in ExcHi, b \in ExcBits, m \in ExcModes}
    /\ spsr = CpuReset.spsr
    /\ banked_r13 = CpuReset.banked_r13
    /\ banked_r14 = CpuReset.banked_r14
    /\ banked_r8_r12 = CpuReset.banked_r8_r12
    /\ thumb_mode = Flag(cpsr, FLAG_T)
    /\ cycles = CpuReset.cycles
    /\ running = FALSE
    /\ interrupt_enable = 0
    /\ interrupt_flags = 0
    /\ interrupt_master = Zero32
    /\ PpuInit
    /\ phase = "idle"
    /\ frame_i = 0
    /\ last = NoLast
    /\ nops = 0
    /\ trip = NoTrip
    /\ cc_cond = 0
    /\ cc_result = <<>>
    /\ mem = MemPowerOn

\* cpu.handle_irq(gba)
ExcIrq ==
    /\ nops < MaxExcOps
    /\ nops' = nops + 1
    /\ SetCpu(handle_irq(Cpu))
    /\ last' = Last("handle_irq", 0, Zero32)
    /\ UNCHANGED <<irqVars, ppuVars, frameVars, trip, ccVars, mem>>

\* cpu.handle_fiq(gba)
ExcFiq ==
    /\ nops < MaxExcOps
    /\ nops' = nops + 1
    /\ SetCpu(handle_fiq(Cpu))
    /\ last' = Last("handle_fiq", 0, Zero32)
    /\ UNCHANGED <<irqVars, ppuVars, frameVars, trip, ccVars, mem>>

\* switch_mode(new_mode)
ExcSwitch ==
    /\ nops < MaxExcOps
    /\ nops' = nops + 1
    /\ \E new_mode \in CpuMode :
        /\ SetCpu(switch_mode(Cpu, new_mode))
        /\ last' = Last("switch_mode", new_mode, Zero32)
    /\ UNCHANGED <<irqVars, ppuVars, frameVars, trip, ccVars, mem>>

\* words the bus returns for the fetch: conditions EQ, NE, AL and NV over a
\* data-processing pattern, and NV over the SWI pattern
ExcWords == {<<0, 0>>, <<4096, 0>>, <<57344, 0>>, <<61440, 0>>, <<65280, 0>>}

\* cpu.step(gba)
ExcStep ==
    /\ nops < MaxExcOps
    /\ nops' = nops + 1
    /\ \E word \in ExcWords :
        LET pending == has_pending_interrupts(Io)
        IN  /\ SetCpu(step(Cpu, pending, word))
            /\ last' = [Last("step", 0, word) EXCEPT
                            !.irq = irq_taken(Cpu, pending),
                            !.out = step_report(Cpu, pending, word)]
    /\ UNCHANGED <<irqVars, ppuVars, frameVars, trip, ccVars, mem>>

ExcNext == ExcIrq \/ ExcFiq \/ ExcSwitch \/ ExcStep

SpecExc == ExcInit /\ [][ExcNext]_vars

\* C14: handle_irq sets the I bit and leaves the F bit as it was;
\* handle_fiq sets the I and the F bit; both clear the T bit and thumb_mode
\* and leave N, Z, C, V (the whole upper half of the CPSR) as they were.
C14_DisableBits ==
    /\ last.op = "handle_irq" =>
        /\ Flag(cpsr, FLAG_I)
        /\ Flag(cpsr, FLAG_F) <=> Flag(last.cpsr0, FLAG_F)
        /\ ~Flag(cpsr, FLAG_T) /\ ~thumb_mode
        /\ cpsr[1] = last.cpsr0[1]
    /\ last.op = "handle_fiq" =>
        /\ Flag(cpsr, FLAG_I) /\ Flag(cpsr, FLAG_F)
        /\ ~Flag(cpsr, FLAG_T) /\ ~thumb_mode
        /\ cpsr[1] = last.cpsr0[1]

\* handle_fiq entered from User mode in Thumb state with N and V set and
\* both disable bits clear
C14_Witness ==
    /\ last.op = "handle_fiq"
    /\ last.cpsr0 = <<36864, 32 + USER>>
    /\ cpsr = <<36864, 192 + FIQ>>

\* C15: switch_mode(target) leaves the CPSR as it was but for the mode
\* field, which becomes target; PC, R0-R7, the SPSR slots, thumb_mode and
\* the cycle count are as they were; with target the current mode nothing
\* of the CPU changes.
C15_SwitchModeFrame ==
    [][last'.op = "switch_mode" =>
        /\ cpsr'[1] = cpsr[1]
        /\ cpsr'[2] \div 32 = cpsr[2] \div 32
        /\ ModeOf(cpsr') = last'.a
        /\ \A r \in (0..7) \cup {15} : registers'[r] = registers[r]
        /\ UNCHANGED <<spsr, thumb_mode, cycles>>
        /\ ModeOf(cpsr) = last'.a => UNCHANGED cpuVars ]_vars

\* switch_mode(Supervisor) from IRQ mode with all of N, Z, C, V, I, F, T set
C15_Witness ==
    /\ last.op = "switch_mode"
    /\ last.a = SUPERVISOR
    /\ last.cpsr0 = <<61440, 224 + IRQ>>
    /\ cpsr = <<61440, 224 + SUPERVISOR>>

\* ------------------------------------------------------------------------
\* SpecMem: the bus primitives of GBAMemory applied to a memory that holds
\* a loaded ROM image, at addresses in every region, at every byte lane, and
\* just outside the regions.
\* ------------------------------------------------------------------------

MaxMemWrites == 1

\* ROM images: two words (0xCAFEBABE, 0x12345678), and a file of 6 bytes
Rom8 == <<190, 186, 254, 202, 120, 86, 52, 18>>
Rom6 == <<190, 186, 254, 202, 120, 86>>

\* after load_rom and init()
MemLoaded == [MemPowerOn EXCEPT !.rom = Rom8]

\* after load_rom, init() and writes that left in byte i of array number j
\* the value 16 * j + (i mod 8) + 1
MemPatterned ==
    [bios |-> [i \in SampledBios |-> 0],
     ewram |-> [i \in SampledEwram |-> 16 + (i % 8) + 1],
     iwram |-> [i \in SampledIwram |-> 32 + (i % 8) + 1],
     io_registers |-> [i \in SampledIo |-> 48 + (i % 8) + 1],
     palette |-> [i \in SampledPalette |-> 64 + (i % 8) + 1],
     vram |-> [i \in SampledVram |-> 80 + (i % 8) + 1],
     oam |-> [i \in SampledOam |-> 96 + (i % 8) + 1],
     rom |-> Rom6]

MemInit ==
    /\ registers = CpuReset.registers
    /\ cpsr = CpuReset.cpsr
    /\ spsr = CpuReset.spsr
    /\ banked_r13 = CpuReset.banked_r13
    /\ banked_r14 = CpuReset.banked_r14
    /\ banked_r8_r12 = CpuReset.banked_r8_r12
    /\ thumb_mode = CpuReset.thumb_mode
    /\ cycles = CpuReset.cycles
    /\ running = FALSE
    /\ interrupt_enable = 0
    /\ interrupt_flags = 0
    /\ interrupt_master = Zero32
    /\ PpuInit
    /\ phase = "idle"
    /\ frame_i = 0
    /\ last = NoLast
    /\ nops = 0
    /\ trip = NoTrip
    /\ cc_cond = 0
    /\ cc_result = <<>>
    /\ mem \in {MemLoaded, MemPatterned}

\* the first word of every region (the last word of VRAM), and the first
\* word past the BIOS and past VRAM, which no region maps
MemBases ==
    {BIOS_START, EWRAM_START, IWRAM_START, IO_START, PALETTE_START,
     VRAM_START + VRAM_SIZE - 4, OAM_START, ROM_START,
     BIOS_START + BIOS_SIZE, VRAM_START + VRAM_SIZE}

MemWriteAddrs32 == MemBases \cup {EWRAM_START + 2, EWRAM_START + 4, REG_IME}
MemWriteAddrs16 ==
    {b + 2 : b \in MemBases} \cup {EWRAM_START + k : k \in 0..3}
        \cup {IWRAM_START + 1, REG_IE, REG_IF}
MemWriteAddrs8 ==
    {b + 1 : b \in MemBases} \cup {EWRAM_START + k : k \in 0..3}
        \cup {VRAM_START + VRAM_SIZE - 1}
\* reads: inside EWRAM, past the BIOS, past VRAM, in and past the ROM, and
\* at the bus addresses of IE and IME
MemReadAddrs ==
    {EWRAM_START + 1, BIOS_START + BIOS_SIZE, VRAM_START + VRAM_SIZE + 2,
     ROM_START + 4, ROM_START + 6, ROM_START + 8, REG_IE, REG_IME}

MemVals32 == {<<57005, 48879>>}
MemVals16 == {4660}
MemVals8 == {171}
\* bytes found past the end of the rom vector's storage
JunkBytes == {0, 255}

MemWrite32 ==
    /\ nops < MaxMemWrites
    /\ nops' = nops + 1
    /\ \E address \in MemWriteAddrs32, value \in MemVals32 :
        /\ mem' = write32(mem, address, value)
        /\ last' = Last("mem_write32", address, value)
    /\ UNCHANGED <<cpuVars, irqVars, ppuVars, frameVars, trip, ccVars>>

MemWrite16 ==
    /\ nops < MaxMemWrites
    /\ nops' = nops + 1
    /\ \E address \in MemWriteAddrs16, value \in MemVals16, junk \in JunkBytes :
        /\ mem' = write16(mem, address, value, junk)
        /\ last' = Last("mem_write16", address, <<0, value>>)
    /\ UNCHANGED <<cpuVars, irqVars, ppuVars, frameVars, trip, ccVars>>

MemWrite8 ==
    /\ nops < MaxMemWrites
    /\ nops' = nops + 1
    /\ \E address \in MemWriteAddrs8, value \in MemVals8, junk \in JunkBytes :
        /\ mem' = write8(mem, address, value, junk)
        /\ last' = Last("mem_write8", address, <<0, value>>)
    /\ UNCHANGED <<cpuVars, irqVars, ppuVars, frameVars, trip, ccVars>>

\* the reads are const members; last.v keeps the value returned
MemRead32 ==
    /\ \E address \in MemReadAddrs, junk \in JunkBytes :
        last' = Last("mem_read32", address, read32(mem, address, junk))
    /\ UNCHANGED <<cpuVars, irqVars, ppuVars, frameVars, bankVars, ccVars, mem>>

MemRead16 ==
    /\ \E address \in MemReadAddrs, junk \in JunkBytes :
        last' = Last("mem_read16", address, <<0, read16(mem, address, junk)>>)
    /\ UNCHANGED <<cpuVars, irqVars, ppuVars, frameVars, bankVars, ccVars, mem>>

MemRead8 ==
    /\ \E address \in MemReadAddrs, junk \in JunkBytes :
        last' = Last("mem_read8", address, <<0, read8(mem, address, junk)>>)
    /\ UNCHANGED <<cpuVars, irqVars, ppuVars, frameVars, bankVars, ccVars, mem>>

MemNext ==
    \/ MemWrite32
    \/ MemWrite16
    \/ MemWrite8
    \/ MemRead32
    \/ MemRead16
    \/ MemRead8

SpecMem == MemInit /\ [][MemNext]_vars

\* bus addresses of the array bytes kept, BIOS included
StoredBytes ==
    {BIOS_START + i : i \in SampledBios} \cup {EWRAM_START + i : i \in SampledEwram}
        \cup {IWRAM_START + i : i \in SampledIwram} \cup {IO_START + i : i \in SampledIo}
        \cup {PALETTE_START + i : i \in SampledPalette}
        \cup {VRAM_START + i : i \in SampledVram} \cup {OAM_START + i : i \in SampledOam}

\* the array byte that bus address b names
ByteAt(m, b) ==
    IF b < BIOS_START + BIOS_SIZE THEN m.bios[b - BIOS_START]
    ELSE IF b < EWRAM_START + EWRAM_SIZE THEN m.ewram[b - EWRAM_START]
    ELSE IF b < IWRAM_START + IWRAM_SIZE THEN m.iwram[b - IWRAM_START]
    ELSE IF b < IO_START + IO_SIZE THEN m.io_registers[b - IO_START]
    ELSE IF b < PALETTE_START + PALETTE_SIZE THEN m.palette[b - PALETTE_START]
    ELSE IF b < VRAM_START + VRAM_SIZE THEN m.vram[b - VRAM_START]
    ELSE m.oam[b - OAM_START]

\* from m0 to m1 no byte changed outside the n bytes at address a
OthersKept(m0, m1, a, n) ==
    /\ m1.rom = m0.rom
    /\ \A b \in StoredBytes : (b < a \/ b >= a + n) => ByteAt(m1, b) = ByteAt(m0, b)

\* C18: in a writable region write32 at an address that is a multiple of 4,
\* write16 at an even address and write8 at any address are read back by
\* the read of the same width at the same address, and change no byte
\* outside the 4, 2 or 1 bytes written.
C18_AlignedRoundTrip ==
    [][ /\ (last'.op = "mem_write32" /\ is_writable(last'.a) /\ last'.a % 4 = 0) =>
            /\ \A junk \in JunkBytes : read32(mem', last'.a, junk) = last'.v
            /\ OthersKept(mem, mem', last'.a, 4)
        /\ (last'.op = "mem_write16" /\ is_writable(last'.a) /\ last'.a % 2 = 0) =>
            /\ \A junk \in JunkBytes : read16(mem', last'.a, junk) = last'.v[2]
            /\ OthersKept(mem, mem', last'.a, 2)
        /\ (last'.op = "mem_write8" /\ is_writable(last'.a)) =>
            /\ \A junk \in JunkBytes : read8(mem', last'.a, junk) = last'.v[2]
            /\ OthersKept(mem, mem', last'.a, 1) ]_vars

\* write8 of 0xAB at byte lane 2 of the first EWRAM word, whose other
\* lanes held 0x11, 0x12 and 0x14
C18_Witness ==
    /\ last.op = "mem_write8"
    /\ last.a = EWRAM_START + 2
    /\ Load32(mem.ewram, 0) = <<20 * 256 + 171, 18 * 256 + 17>>

\* C19: write16 at an odd address in a writable region stores the low byte
\* of the halfword at that address and the high byte at the next one, and
\* changes no other byte, whether the low address bits are 01 or 11.
C19_OddHalfwordMerge ==
    [][ (last'.op = "mem_write16" /\ is_writable(last'.a) /\ last'.a % 2 = 1) =>
            /\ ByteAt(mem', last'.a) = last'.v[2] % 256
            /\ (last'.a + 1) \in StoredBytes =>
                   ByteAt(mem', last'.a + 1) = last'.v[2] \div 256
            /\ OthersKept(mem, mem', last'.a, 2) ]_vars

\* C20: a read of any width at an address that no region maps returns 0,
\* and a write of any width at an address outside the writable regions
\* (unmapped, BIOS or ROM) changes no byte of memory.
C20_UnmappedDefault ==
    /\ []((last.op \in {"mem_read32", "mem_read16", "mem_read8"}
            /\ ~is_readable(mem, last.a)) => last.v = Zero32)
    /\ [][(last'.op \in {"mem_write32", "mem_write16", "mem_write8"}
            /\ ~is_writable(last'.a)) => mem' = mem]_vars

\* ------------------------------------------------------------------------
\* Further properties of SpecExc
\* ------------------------------------------------------------------------

\* C21: in every state reached through step, handle_irq, handle_fiq and
\* switch_mode, bits 0-4 of the CPSR hold one of the seven mode encodings
\* 0x10, 0x11, 0x12, 0x13, 0x17, 0x1B, 0x1F.
C21_ValidMode == ModeOf(cpsr) \in {16, 17, 18, 19, 23, 27, 31}

\* Abort mode entered by switch_mode after an FIQ entry from the reset state
C21_Witness ==
    /\ last.op = "switch_mode"
    /\ last.a = ABORT
    /\ ModeOf(last.cpsr0) = FIQ
    /\ ModeOf(cpsr) = ABORT
    /\ spsr[get_mode_index(FIQ)] = <<0, SYSTEM>>

\* C22: a step in ARM state that takes no interrupt and fetches a word
\* whose condition fails advances the PC by 4 and the cycle count by 1 and
\* changes nothing else: R0-R14, the CPSR, the SPSRs, the bank slots,
\* thumb_mode, memory and IE, IF, IME are as before; the condition of a
\* word with 0xF in bits 28-31 fails under every setting of the flags.
C22_FailedConditionFrame ==
    [][ (last'.op = "step" /\ ~last'.irq /\ ~thumb_mode) =>
          /\ (last'.v[1] \div 4096 = 15 => last'.out = "skip")
          /\ last'.out = "skip" =>
                /\ registers'[15] = AddW(registers[15], <<0, 4>>)
                /\ cycles' = cycles + 1
                /\ \A r \in 0..14 : registers'[r] = registers[r]
                /\ UNCHANGED <<cpsr, spsr, banked_r13, banked_r14, banked_r8_r12,
                               thumb_mode, mem, irqVars>> ]_vars

\* the word 0xFF000000 (SWI pattern under condition 0xF) fetched in User
\* mode with N, Z, C and V set
C22_Witness ==
    /\ last.op = "step"
    /\ last.v = <<65280, 0>>
    /\ last.out = "skip"
    /\ last.cpsr0 = <<61440, USER>>
    /\ cpsr = <<61440, USER>>
    /\ registers[15] = <<2048, 4>>
    /\ cycles = 1

\* C25: after handle_irq or handle_fiq the visible R14 is the PC at entry
\* minus 4 when the entry was made in ARM state and minus 2 when it was
\* made in Thumb state, whatever mode the CPU was in, the destination mode
\* itself included.
C25_VisibleLinkRegister ==
    last.op \in {"handle_irq", "handle_fiq"} =>
        registers[14] =
            SubW(last.pc0, IF Flag(last.cpsr0, FLAG_T) THEN <<0, 2>> ELSE <<0, 4>>)

\* C28: in every state reached through step, handle_irq, handle_fiq and
\* switch_mode, thumb_mode (which selects the fetch width in step) is true
\* exactly when bit 5 (T) of the CPSR is set.
C28_ThumbModeIsTBit == thumb_mode <=> Flag(cpsr, FLAG_T)

\* an IRQ entry made after a step in Thumb state, Supervisor mode: the step
\* fetched a halfword (PC + 2) and the entry cleared T and thumb_mode
C28_Witness ==
    /\ last.op = "handle_irq"
    /\ last.cpsr0 = <<0, 32 + SUPERVISOR>>
    /\ last.pc0 = <<2048, 2>>
    /\ banked_r14[get_mode_index(IRQ)] = <<2048, 0>>
    /\ ~thumb_mode
    /\ ~Flag(cpsr, FLAG_T)

\* ------------------------------------------------------------------------
\* Further properties of Spec
\* ------------------------------------------------------------------------

\* C23: every step adds at least 1 to the cycle count (the base cycle); a
\* step that enters the IRQ exception adds the 3 cycles of the entry on top
\* of the base cycle, an entry made by check_interrupts adds exactly 3; and
\* no operation other than reset lowers the cycle count.
C23_CycleAccounting ==
    [][ /\ last'.op = "step" => cycles' >= cycles + 1
        /\ (last'.op = "step" /\ last'.irq) => cycles' = cycles + 1 + 3
        /\ (last'.op = "check" /\ last'.irq) => cycles' = cycles + 3
        /\ last'.op # "reset" => cycles' >= cycles ]_vars

\* C29: after GBASystem::reset the CPU, the PPU registers, the writable
\* memory, `running` and IE, IF, IME are as after construction and init(),
\* the ROM being kept; and the first step after a reset takes no interrupt.
C29_FullReset ==
    /\ [](last.op = "reset" =>
            /\ Cpu = CpuReset
            /\ PpuInit
            /\ ~running
            /\ mem = [MemPowerOn EXCEPT !.rom = mem.rom]
            /\ interrupt_enable = 0
            /\ interrupt_flags = 0
            /\ interrupt_master = Zero32)
    /\ [][(last.op = "reset" /\ last'.op = "step") => ~last'.irq]_vars

\* ------------------------------------------------------------------------
\* Further properties of SpecMem
\* ------------------------------------------------------------------------

\* C24: a 16-bit bus write at 0x04000200 stores its value in IE, one at
\* 0x04000202 clears in IF the bits written as 1, a 32-bit bus write at
\* 0x04000208 stores its value in IME; and a bus read at 0x04000200 or
\* 0x04000208 returns the current value of IE or IME.
C24_BusMappedInterruptRegisters ==
    /\ [][ /\ (last'.op = "mem_write16" /\ last'.a = REG_IE) =>
               interrupt_enable' = last'.v[2]
           /\ (last'.op = "mem_write16" /\ last'.a = REG_IF) =>
               interrupt_flags' = ack_flags(interrupt_flags, last'.v[2])
           /\ (last'.op = "mem_write32" /\ last'.a = REG_IME) =>
               interrupt_master' = last'.v ]_vars
    /\ []((last.op = "mem_read16" /\ last.a = REG_IE) =>
                last.v = <<0, interrupt_enable>>)
    /\ []((last.op = "mem_read32" /\ last.a = REG_IME) =>
                last.v = interrupt_master)

\* ------------------------------------------------------------------------
\* Further properties of SpecBank
\* ------------------------------------------------------------------------

\* C26: a switch_mode from a mode other than FIQ to a mode other than FIQ
\* leaves the visible R8-R12 as they were.
C26_SharedR8R12 ==
    [][ (last'.op = "switch" /\ ModeOf(cpsr) # FIQ /\ last'.a # FIQ) =>
            \A r \in 8..12 : registers'[r] = registers[r] ]_vars

\* C30: every read32, read16 and read8 served from ROM touches only bytes
\* of the rom vector at offsets below rom.size(), whatever the size of the
\* loaded file (a multiple of 4 or not) and whatever the address.
C30_RomReadsInBounds ==
    last.op \in {"mem_read32", "mem_read16", "mem_read8"} =>
        \A offset \in rom_bytes_read(mem, last.a) : offset < Len(mem.rom)

\* ------------------------------------------------------------------------
\* SpecIndex: get_mode_index applied to two values of CpuMode, each any
\* 5-bit pattern that static_cast<CpuMode>(cpsr & 0x1F) can yield.
\* ------------------------------------------------------------------------

ModeValues == 0..31

\* get_mode_index(mode) and get_mode_index(other): a const member; last.a
\* and last.req keep the two arguments, last.v the two indices returned
IndexEval ==
    /\ \E mode \in ModeValues, other \in ModeValues :
        last' = [Last("get_mode_index", mode,
                      <<get_mode_index(mode), get_mode_index(other)>>)
                    EXCEPT !.req = other]
    /\ UNCHANGED <<cpuVars, irqVars, ppuVars, frameVars, bankVars, ccVars, mem>>

SpecIndex == Init /\ [][IndexEval]_vars

PrivilegedModes == {FIQ, IRQ, SUPERVISOR, ABORT, UNDEFINED}

\* C27: for each of the modes FIQ, IRQ, Supervisor, Abort and Undefined
\* get_mode_index returns an index of the 5-element spsr array, and for two
\* different modes among them it returns two different indices.
C27_SpsrSlots ==
    (last.op = "get_mode_index" /\ last.a \in PrivilegedModes) =>
        /\ last.v[1] \in DOMAIN spsr
        /\ (last.req \in PrivilegedModes /\ last.req # last.a) =>
                last.v[2] # last.v[1]

\* ------------------------------------------------------------------------
\* Further properties of SpecIndex
\* ------------------------------------------------------------------------

\* C33: for a 5-bit value that is none of the seven modes, get_mode_index
\* does not return the bank index of a valid mode: its result differs from
\* the index it returns for each of the seven modes.
C33_StrictModeIndex ==
    (last.op = "get_mode_index" /\ last.a \notin CpuMode /\ last.req \in CpuMode) =>
        last.v[1] # last.v[2]

\* ------------------------------------------------------------------------
\* SpecStat: I/O register writes of every width at and around DISPSTAT,
\* made when the PPU has left any of its status bits set in the register.
\* ------------------------------------------------------------------------

\* DISPSTAT as GBAPPU::step leaves it: no status bit; V-blank; H-blank;
\* V-blank and H-blank; V-count match; all three with the three IRQ enables
\* and V-count setting 160
StatValues == {0, 1, 2, 3, 4, 63 + 160 * 256}

StatInit ==
    /\ registers = CpuReset.registers
    /\ cpsr = CpuReset.cpsr
    /\ spsr = CpuReset.spsr
    /\ banked_r13 = CpuReset.banked_r13
    /\ banked_r14 = CpuReset.banked_r14
    /\ banked_r8_r12 = CpuReset.banked_r8_r12
    /\ thumb_mode = CpuReset.thumb_mode
    /\ cycles = CpuReset.cycles
    /\ running = FALSE
    /\ interrupt_enable = 0
    /\ interrupt_flags = 0
    /\ interrupt_master = Zero32
    /\ dispcnt = 0
    /\ dispstat \in StatValues
    /\ vcount = 0 /\ scanline = 0 /\ dot = 0
    /\ bg_control = [n \in 0..3 |-> 0]
    /\ bg_scroll_x = [n \in 0..3 |-> 0]
    /\ bg_scroll_y = [n \in 0..3 |-> 0]
    /\ phase = "idle"
    /\ frame_i = 0
    /\ last = NoLast
    /\ nops = 0
    /\ trip = NoTrip
    /\ cc_cond = 0
    /\ cc_result = <<>>
    /\ mem = MemPowerOn

\* the bytes from DISPCNT + 3 to DISPSTAT + 1
StatAddrs8 == {REG_DISPSTAT - 1, REG_DISPSTAT, REG_DISPSTAT + 1}
StatAddrs16 == {REG_DISPSTAT - 2, REG_DISPSTAT - 1, REG_DISPSTAT}
StatAddrs32 == {REG_DISPCNT, REG_DISPSTAT - 2, REG_DISPSTAT}
StatVals8 == {0, 255}
StatVals16 == {0, 65535}
StatVals32 == {<<0, 0>>, <<65535, 65535>>}

StatWrite8 ==
    /\ \E a \in StatAddrs8, v \in StatVals8 : DoWrite8(a, v)
    /\ UNCHANGED frameVars

StatWrite16 ==
    /\ \E a \in StatAddrs16, v \in StatVals16 : DoWrite16(a, v)
    /\ UNCHANGED frameVars

StatWrite32 ==
    /\ \E a \in StatAddrs32, v \in StatVals32 : DoWrite32(a, v)
    /\ UNCHANGED frameVars

StatNext == StatWrite8 \/ StatWrite16 \/ StatWrite32

SpecStat == StatInit /\ [][StatNext]_vars

\* C32: no I/O register write, 8-bit at 0x04000004 or 16-bit or 32-bit
\* covering it, changes bits 0-2 of dispstat.
C32_StatusBitsReadOnly ==
    [][IsWrite(last') => dispstat' % 8 = dispstat % 8]_vars

\* ------------------------------------------------------------------------
\* SpecPpu: the PPU stepped on its own for two frames.  DISPSTAT is written
\* at most once, before the first step; no register is written afterwards.
\* ------------------------------------------------------------------------

MaxPpuSteps == 140448

\* values written to DISPSTAT before the first step: the V-blank IRQ enable
\* alone; the three IRQ enables with V-count setting 160
PpuSetups == {8, 56 + 160 * 256}

PpuSetup ==
    /\ nops = 0
    /\ last.op = "init"
    /\ \E v \in PpuSetups : DoWrite16(REG_DISPSTAT, v)
    /\ UNCHANGED frameVars

\* the number of the latest step that issued request_interrupt(0); 0 when
\* no step has
LastVblankRequest == IF last.op = "ppu" THEN last.a ELSE 0

\* ppu.step(gba); nops counts the steps, last.req is the mask of the
\* interrupt types the step requested
PpuTick ==
    /\ nops < MaxPpuSteps
    /\ nops' = nops + 1
    /\ SetPpu(ppu_step(Ppu))
    /\ last' = [Last("ppu",
                     IF Bit(ppu_requests(Ppu), 0) THEN nops + 1
                     ELSE LastVblankRequest,
                     Zero32)
                    EXCEPT !.req = ppu_requests(Ppu)]
    /\ UNCHANGED <<cpuVars, frameVars, trip, ccVars, mem>>

PpuNext == PpuSetup \/ PpuTick

SpecPpu == Init /\ [][PpuNext]_vars

\* C31: after every PPU step, 0 <= dot < 308, 0 <= scanline < 228, vcount
\* equals scanline and the V-blank bit of DISPSTAT is set exactly when
\* 160 <= scanline <= 227; and with the V-blank IRQ enable set, every 308 *
\* 228 consecutive steps hold exactly one request_interrupt(0): the first
\* request comes within the first 308 * 228 steps and each later one 308 *
\* 228 steps after the one before.
C31_PpuCounters ==
    /\ [](last.op = "ppu" =>
            /\ dot >= 0 /\ dot < DOTS_PER_SCANLINE
            /\ scanline >= 0 /\ scanline < TOTAL_SCANLINES
            /\ vcount = scanline
            /\ Bit(dispstat, 0) <=>
                   (scanline >= GBA_SCREEN_HEIGHT /\ scanline <= TOTAL_SCANLINES - 1)
            /\ Bit(dispstat, 3) =>
                   nops - LastVblankRequest < DOTS_PER_SCANLINE * TOTAL_SCANLINES)
    /\ [][(last'.op = "ppu" /\ Bit(dispstat, 3) /\ Bit(last'.req, 0)) =>
            \/ LastVblankRequest = 0
            \/ nops' - LastVblankRequest = DOTS_PER_SCANLINE * TOTAL_SCANLINES ]_vars

\* the second V-blank request, one frame after the first, with the V-count
\* match and H-blank requests enabled too
C31_Witness ==
    /\ last.op = "ppu"
    /\ Bit(last.req, 0)
    /\ nops = (GBA_SCREEN_HEIGHT + TOTAL_SCANLINES) * DOTS_PER_SCANLINE
    /\ scanline = GBA_SCREEN_HEIGHT
    /\ dot = 0
    /\ dispstat = 61 + 160 * 256
    /\ interrupt_flags = 7

====
